---- MODULE Spec2Model ----
(***************************************************************************)
(* Model of src/ani_format.py: the RIFF "ACON" animated-cursor container.  *)
(* Byte strings are sequences of naturals 0..255, a binary stream is a     *)
(* record [data, pos], and the decode context ani_data is a record whose   *)
(* fields are <<>> while the dictionary key is absent (or None) and <<v>>  *)
(* once it holds v.                                                        *)
(***************************************************************************)
EXTENDS Integers, Sequences, FiniteSets, TLC

\* ------------------------------------------------------------------ bounds
\* longest chunk sequence of the enumerated input containers and streams
MaxChunks == 3
\* largest num_frames of an input header, longest cursor handed to write
MaxFrames == 2
\* largest num_steps of an input header
MaxSteps == 2

\* ------------------------------------------------------------- byte strings
Min(a, b) == IF a < b THEN a ELSE b

\* Python's data[a:b] on a byte string (0-based, clamped to the string)
Slice(data, a, b) == SubSeq(data, a + 1, Min(b, Len(data)))

Zeros(n) == [i \in 1..n |-> 0]

\* Python's arr[a:b] = bytes on a bytearray, Len(bytes) = b - a
SetSlice(arr, a, b, bytes) == Slice(arr, 0, a) \o bytes \o Slice(arr, b, Len(arr))

\* format_core.to_bytes(num, length): little-endian unsigned
to_bytes(num, length) == [i \in 1..length |-> (num \div (256 ^ (i - 1))) % 256]

\* format_core.to_int(b): little-endian unsigned, of however many bytes b has
RECURSIVE to_int(_)
to_int(b) == IF b = <<>> THEN 0 ELSE b[1] + 256 * to_int(Tail(b))

\* the four-byte tags
RIFF_MAGIC == <<82, 73, 70, 70>>
ACON_MAGIC == <<65, 67, 79, 78>>
ANIH == <<97, 110, 105, 104>>
LIST == <<76, 73, 83, 84>>
RATE == <<114, 97, 116, 101>>
SEQ == <<115, 101, 113, 32>>
FRAM == <<102, 114, 97, 109>>
ICON == <<105, 99, 111, 110>>
JUNK == <<74, 85, 78, 75>>

\* ------------------------------------------------------------------ streams
EmptyStream == [data |-> <<>>, pos |-> 0]

\* buffer.read(n): the bytes returned; the position advances by their count
StreamRead(f, n) == Slice(f.data, f.pos, f.pos + n)

StreamAdvance(f, n) == [f EXCEPT !.pos = Min(f.pos + n, Len(f.data))]

\* buffer.write(bytes) at the current position: overwrites, then extends
StreamWrite(f, bytes) ==
    [data |-> Slice(f.data, 0, f.pos) \o bytes
                \o Slice(f.data, f.pos + Len(bytes), Len(f.data)),
     pos |-> f.pos + Len(bytes)]

\* buffer.seek(p)
StreamSeek(f, p) == [f EXCEPT !.pos = p]

\* ------------------------------------------------------------- read_chunks
NoChunk == [id |-> <<>>, size |-> 0, data |-> <<>>]

\* One resumption of the generator: loops over skipped tags, then either
\* returns (done) or yields one (id, size, data) triple.
RECURSIVE next_chunk(_, _)
next_chunk(buffer, skip_chunks) ==
    LET next_id == StreamRead(buffer, 4)
        b1 == StreamAdvance(buffer, 4)
    IN  IF next_id = <<>>
        THEN [done |-> TRUE, buffer |-> b1, chunk |-> NoChunk]
        ELSE IF next_id \in skip_chunks
        THEN next_chunk(b1, skip_chunks)
        ELSE LET size == to_int(StreamRead(b1, 4))
                 b2 == StreamAdvance(b1, 4)
                 payload == StreamRead(b2, size)
             IN  [done |-> FALSE, buffer |-> StreamAdvance(b2, size),
                  chunk |-> [id |-> next_id, size |-> size, data |-> payload]]

\* The whole sequence the generator produces over a buffer
RECURSIVE read_chunks(_, _)
read_chunks(buffer, skip_chunks) ==
    LET r == next_chunk(buffer, skip_chunks)
    IN  IF r.done THEN <<>> ELSE <<r.chunk>> \o read_chunks(r.buffer, skip_chunks)

\* a loop body that looks at a skipped tag without consuming it
loop_iteration_peek(buffer, skip) ==
    LET next_id == StreamRead(buffer, 4)
        b1 == StreamAdvance(buffer, 4)
    IN  IF next_id = <<>>
        THEN [kind |-> "return", buffer |-> b1, chunk |-> NoChunk]
        ELSE IF next_id \in skip
        THEN [kind |-> "continue", buffer |-> buffer, chunk |-> NoChunk]
        ELSE LET size == to_int(StreamRead(b1, 4))
                 b2 == StreamAdvance(b1, 4)
             IN  [kind |-> "yield", buffer |-> StreamAdvance(b2, size),
                  chunk |-> [id |-> next_id, size |-> size,
                             data |-> StreamRead(b2, size)]]

\* lines 17-24: one pass through the body of the while loop, which returns,
\* continues with the next pass, or yields a triple
loop_iteration(buffer, skip) ==
    LET next_id == StreamRead(buffer, 4)
        b1 == StreamAdvance(buffer, 4)
    IN  IF next_id = <<>>
        THEN [kind |-> "return", buffer |-> b1, chunk |-> NoChunk]
        ELSE IF next_id \in skip
        THEN [kind |-> "continue", buffer |-> b1, chunk |-> NoChunk]
        ELSE LET size == to_int(StreamRead(b1, 4))
                 b2 == StreamAdvance(b1, 4)
             IN  [kind |-> "yield", buffer |-> StreamAdvance(b2, size),
                  chunk |-> [id |-> next_id, size |-> size,
                             data |-> StreamRead(b2, size)]]

\* write_chunk(buffer, chunk_id, chunk_data)
write_chunk(buffer, chunk_id, chunk_data) ==
    StreamWrite(
        StreamWrite(
            StreamWrite(buffer, Slice(chunk_id, 0, 4)),
            to_bytes(Len(chunk_data), 4)),
        chunk_data)

\* ------------------------------------------------------------ sub-codecs
\* CurFormat.read / CurFormat.write: the icon-container codec, opaque here.
\* A frame image is the handle [fmt, data]; the codec rejects an empty payload.
CurDecodable(chunk_data) == Len(chunk_data) > 0
CurFormat_read(chunk_data) == [fmt |-> "cur", data |-> chunk_data]
CurFormat_write(sub_cursor) == sub_cursor.data

\* BmpImagePlugin.DibImageFile plus the height correction of the raw bitmap
DibCursor(chunk_data) == [fmt |-> "dib", data |-> chunk_data]

\* ------------------------------------------------------------- the handlers
\* A handler's outcome: the exception it raised ("" for none) and the
\* decode context as the handler left it.
Ok(data_out) == [err |-> "", out |-> data_out]
Raise(e, data_out) == [err |-> e, out |-> data_out]

EmptyContext == [header |-> <<>>, seq |-> <<>>, rate |-> <<>>, list |-> <<>>]

\* a default sequence without the cyclic reuse
default_seq_nomod(h_data) ==
    [i \in 1..h_data.num_steps |-> i - 1]

\* [i % num_frames for i in range(num_steps)]
default_seq(h_data) ==
    [i \in 1..h_data.num_steps |-> (i - 1) % h_data.num_frames]

\* [display_rate] * num_steps
default_rate(h_data) ==
    [i \in 1..h_data.num_steps |-> h_data.display_rate]

parse_header(data) ==
    [num_frames |-> to_int(Slice(data, 0, 4)),
     num_steps |-> to_int(Slice(data, 4, 8)),
     width |-> to_int(Slice(data, 8, 12)),
     height |-> to_int(Slice(data, 12, 16)),
     bit_count |-> to_int(Slice(data, 16, 20)),
     num_planes |-> 1,
     display_rate |-> to_int(Slice(data, 24, 28)),
     contains_seq |-> ((to_int(Slice(data, 28, 32)) \div 2) % 2 = 1),
     is_in_ico |-> (to_int(Slice(data, 28, 32)) % 2 = 1)]

\* lines 37-54: the header is decoded and the default timing seeded
header_chunk_body(header, data, data_out) ==
    LET h_data == parse_header(IF Len(data) = 36 THEN Slice(data, 4, Len(data)) ELSE data)
        d1 == [data_out EXCEPT !.header = <<h_data>>]
    IN  IF h_data.num_steps > 0 /\ h_data.num_frames = 0
        THEN Raise("ZeroDivisionError", d1)
        ELSE Ok([d1 EXCEPT !.seq = <<default_seq(h_data)>>,
                           !.rate = <<default_rate(h_data)>>])

\* a header interpreter that lets a second header replace the first
header_chunk_nodup(header, data, data_out) ==
    header_chunk_body(header, data, data_out)

_header_chunk(header, data, data_out) ==
    IF header # <<>>
    THEN Raise("SyntaxError", data_out)
    ELSE header_chunk_body(header, data, data_out)

\* the frames of the 'icon' sub-chunks, in arrival order
RECURSIVE icon_frames(_, _)
icon_frames(chunks, is_in_ico) ==
    IF chunks = <<>> THEN <<>>
    ELSE (IF Head(chunks).id = ICON
          THEN <<IF is_in_ico THEN CurFormat_read(Head(chunks).data)
                              ELSE DibCursor(Head(chunks).data)>>
          ELSE <<>>) \o icon_frames(Tail(chunks), is_in_ico)

list_chunk_body(header, data, data_out) ==
    LET chunks == read_chunks([data |-> Slice(data, 4, Len(data)), pos |-> 0], {})
    IN  IF \E i \in 1..Len(chunks) :
               chunks[i].id = ICON /\ ~CurDecodable(chunks[i].data)
        THEN Raise("CodecError", data_out)
        ELSE Ok([data_out EXCEPT !.list = <<icon_frames(chunks, header[1].is_in_ico)>>])

\* a list interpreter that does not look at the 'fram' marker
list_chunk_nomarker(header, data, data_out) ==
    IF header = <<>>
    THEN Raise("SyntaxError", data_out)
    ELSE list_chunk_body(header, data, data_out)

_list_chunk(header, data, data_out) ==
    IF header = <<>>
    THEN Raise("SyntaxError", data_out)
    ELSE IF Slice(data, 0, 4) # FRAM
    THEN Raise("SyntaxError", data_out)
    ELSE list_chunk_body(header, data, data_out)

\* [to_int(data[i:i+4]) for i in range(0, len(data), 4)]
int_list(data) ==
    [k \in 1..((Len(data) + 3) \div 4) |-> to_int(Slice(data, 4 * (k - 1), 4 * k))]

\* a sequence interpreter that validates but keeps the default sequence
seq_chunk_keep(header, data, data_out) ==
    IF header = <<>>
    THEN Raise("SyntaxError", data_out)
    ELSE IF (Len(data) \div 4) # header[1].num_steps
    THEN Raise("SyntaxError", data_out)
    ELSE Ok(data_out)

_seq_chunk(header, data, data_out) ==
    IF header = <<>>
    THEN Raise("SyntaxError", data_out)
    ELSE IF (Len(data) \div 4) # header[1].num_steps
    THEN Raise("SyntaxError", data_out)
    ELSE Ok([data_out EXCEPT !.seq = <<int_list(data)>>])

\* a rate interpreter that appends to the rates already in the context
rate_chunk_append(header, data, data_out) ==
    IF header = <<>>
    THEN Raise("SyntaxError", data_out)
    ELSE IF (Len(data) \div 4) # header[1].num_steps
    THEN Raise("SyntaxError", data_out)
    ELSE Ok([data_out EXCEPT !.rate = <<data_out.rate[1] \o int_list(data)>>])

\* a rate interpreter that lets a chunk before the header pass
rate_chunk_nohdr(header, data, data_out) ==
    IF header = <<>>
    THEN Ok(data_out)
    ELSE IF (Len(data) \div 4) # header[1].num_steps
    THEN Raise("SyntaxError", data_out)
    ELSE Ok([data_out EXCEPT !.rate = <<int_list(data)>>])

_rate_chunk(header, data, data_out) ==
    IF header = <<>>
    THEN Raise("SyntaxError", data_out)
    ELSE IF (Len(data) \div 4) # header[1].num_steps
    THEN Raise("SyntaxError", data_out)
    ELSE Ok([data_out EXCEPT !.rate = <<int_list(data)>>])

\* AniFormat.CHUNKS
CHUNKS == {ANIH, LIST, RATE, SEQ}

\* a check that looks at the RIFF marker only
check_riff_only(first_bytes) ==
    Slice(first_bytes, 0, 4) = RIFF_MAGIC

\* AniFormat.check(first_bytes)
check(first_bytes) ==
    Slice(first_bytes, 0, 4) = RIFF_MAGIC /\ Slice(first_bytes, 8, 12) = ACON_MAGIC

\* int((rate * 1000) / 60): true division, then truncation
jiffies_to_ms(rate) == (rate * 1000) \div 60

\* Python's round(num / den): to the nearest integer, a tie to the even one
PyRound(num, den) ==
    LET q == num \div den
        r == num % den
    IN  IF 2 * r < den THEN q
        ELSE IF 2 * r > den THEN q + 1
        ELSE IF q % 2 = 0 THEN q ELSE q + 1

\* round((delay * 60) / 1000)
ms_to_jiffies(delay) == PyRound(delay * 60, 1000)

\* ---------------------------------------------------------------- the state
VARIABLES
    pc,         \* position of the running call
    cursor,     \* write's input: a sequence of <<frame, delay_ms>>
    out,        \* write's output stream
    list_data,  \* write's LIST buffer
    delay_data, \* write's rate buffer
    cur_file,   \* read's input stream
    ani_data,   \* read's decode context
    chunk,      \* the triple read_chunks last yielded to read's loop
    result,     \* <<>> until read returns, then <<the AnimatedCursor>>
    err,        \* the exception that ended the call, "" for none
    skip_chunks, \* the skip set of a direct call of read_chunks
    produced    \* the triples a direct call of read_chunks has yielded so far

vars == <<pc, cursor, out, list_data, delay_data, cur_file, ani_data, chunk, result, err,
          skip_chunks, produced>>

\* ------------------------------------------------------------------ inputs
\* the (num_frames, num_steps) of the input headers
HeaderDims == ((0..MaxFrames) \X (0..MaxSteps)) \cup {<<2, 5>>}

\* display_rate, flags and the presence of the self-length field
Layouts ==
    <<[display_rate |-> 1, flags |-> 1, self_len |-> TRUE],
      [display_rate |-> 6, flags |-> 0, self_len |-> FALSE],
      [display_rate |-> 60, flags |-> 3, self_len |-> TRUE]>>

LayoutOf(dims) == Layouts[((dims[1] + dims[2]) % 3) + 1]

HeaderBytes(dims) ==
    LET l == LayoutOf(dims)
    IN  (IF l.self_len THEN to_bytes(36, 4) ELSE <<>>)
        \o to_bytes(dims[1], 4) \o to_bytes(dims[2], 4) \o Zeros(16)
        \o to_bytes(l.display_rate, 4) \o to_bytes(l.flags, 4)

ChunkBytes(chunk_id, chunk_data) == write_chunk(EmptyStream, chunk_id, chunk_data).data

\* the encoded image of frame k
FrameBytes(k) == [i \in 1..k |-> 200 + k]

RECURSIVE IconChunks(_)
IconChunks(n) ==
    IF n = 0 THEN <<>> ELSE IconChunks(n - 1) \o ChunkBytes(ICON, FrameBytes(n))

RECURSIVE IntsBytes(_)
IntsBytes(ints) ==
    IF ints = <<>> THEN <<>> ELSE to_bytes(Head(ints), 4) \o IntsBytes(Tail(ints))

\* an explicit sequence that differs from the default one when num_frames > 1
SeqEntries(dims, n) == [i \in 1..n |-> IF dims[1] = 0 THEN 0 ELSE i % dims[1]]

\* explicit rates: 1, 6, 60, 1, ... jiffies
RateEntries(n) == [i \in 1..n |-> <<1, 6, 60>>[((i - 1) % 3) + 1]]

\* How a container's malformed 'seq ' / 'rate' chunk is malformed is fixed by
\* its header dimensions: 1, 2 or 3 bytes after the last entry, or (0) one
\* entry too many.
SeqFault(dims) == (dims[1] + 2 * dims[2]) % 4
RateFault(dims) == (dims[1] + 2 * dims[2] + 2) % 4

Malformed(entries, n, fault) ==
    IF fault = 0 THEN IntsBytes([i \in 1..(n + 1) |-> entries[i]])
    ELSE IntsBytes([i \in 1..n |-> entries[i]]) \o Zeros(fault)

Kinds == {"anih", "LIST", "LISTbad", "seq", "seqbad", "rate", "ratebad", "JUNK"}

ChunkOf(kind, dims) ==
    CASE kind = "anih" -> ChunkBytes(ANIH, HeaderBytes(dims))
      [] kind = "LIST" ->
            ChunkBytes(LIST, FRAM \o ChunkBytes(JUNK, <<7>>) \o IconChunks(dims[1]))
      [] kind = "LISTbad" ->
            ChunkBytes(LIST, IF dims[2] % 2 = 0
                             THEN <<102, 114, 97, 110>> \o IconChunks(1)
                             ELSE <<102, 114>>)
      [] kind = "seq" -> ChunkBytes(SEQ, IntsBytes(SeqEntries(dims, dims[2])))
      [] kind = "seqbad" ->
            ChunkBytes(SEQ, Malformed(SeqEntries(dims, dims[2] + 1), dims[2],
                                      SeqFault(dims)))
      [] kind = "rate" -> ChunkBytes(RATE, IntsBytes(RateEntries(dims[2])))
      [] kind = "ratebad" ->
            ChunkBytes(RATE, Malformed(RateEntries(dims[2] + 1), dims[2],
                                       RateFault(dims)))
      [] OTHER -> ChunkBytes(JUNK, <<1, 2, 3>>)

RECURSIVE ChunksBytes(_, _)
ChunksBytes(kinds, dims) ==
    IF kinds = <<>> THEN <<>>
    ELSE ChunkOf(Head(kinds), dims) \o ChunksBytes(Tail(kinds), dims)

KindSeqs == UNION {[1..n -> Kinds] : n \in 0..MaxChunks}

GoodPrologue == RIFF_MAGIC \o Zeros(4) \o ACON_MAGIC

\* prologues that are no animated-cursor container
BadPrologues ==
    {RIFF_MAGIC \o Zeros(4) \o <<65, 67, 79, 77>>,
     <<82, 73, 70, 88>> \o Zeros(4) \o ACON_MAGIC,
     RIFF_MAGIC \o Zeros(4) \o <<65, 67>>}

\* files that end before their twelfth byte
ShortFiles ==
    {<<>>, RIFF_MAGIC, RIFF_MAGIC \o Zeros(4) \o <<65, 67, 79>>}

\* a header and a LIST chunk whose number of icons is not num_frames
MiscountedLists ==
    {GoodPrologue \o ChunkOf("anih", p[1]) \o ChunkBytes(LIST, FRAM \o IconChunks(p[2])) :
        p \in {q \in HeaderDims \X (0..MaxFrames) : q[2] # q[1][1]}}

\* header, LIST and two timing chunks, among them two chunks of one tag
TimedKinds ==
    {<<"rate", "ratebad">>, <<"ratebad", "rate">>, <<"seq", "seqbad">>,
     <<"seqbad", "seq">>, <<"seq", "rate">>, <<"seqbad", "ratebad">>}

TimedFiles ==
    {GoodPrologue \o ChunksBytes(<<"anih", "LIST">> \o kinds, dims) :
        kinds \in TimedKinds, dims \in HeaderDims}

InputFiles ==
    {GoodPrologue \o ChunksBytes(kinds, dims) : kinds \in KindSeqs, dims \in HeaderDims}
    \cup {p \o ChunkOf("anih", <<1, 1>>) : p \in BadPrologues}
    \cup ShortFiles
    \cup MiscountedLists
    \cup TimedFiles

FramePool == {CurFormat_read(FrameBytes(k)) : k \in 1..2}

DelayPool == {0, 17, 33, 50, 75}

InputCursors == UNION {[1..n -> FramePool \X DelayPool] : n \in 0..MaxFrames}

\* ------------------------------------------------------------------- Init
Idle ==
    /\ list_data = <<>>
    /\ delay_data = <<>>
    /\ out = EmptyStream
    /\ ani_data = EmptyContext
    /\ chunk = NoChunk
    /\ result = <<>>
    /\ err = ""

\* no direct call of read_chunks is under way
NoTokens ==
    /\ skip_chunks = {}
    /\ produced = <<>>

\* a call of read on an input file
InitRead ==
    /\ pc = "read"
    /\ cursor = <<>>
    /\ cur_file \in {[data |-> d, pos |-> 0] : d \in InputFiles}
    /\ Idle
    /\ NoTokens

\* a call of write on an input cursor and a fresh output stream
InitWrite ==
    /\ pc = "write"
    /\ cursor \in InputCursors
    /\ cur_file = EmptyStream
    /\ Idle
    /\ NoTokens

Init == InitRead \/ InitWrite

\* ------------------------------------------------------------------- read
\* the call ends with exception e
Abort(e) ==
    /\ pc' = "failed"
    /\ err' = e

\* lines 121-126
ReadMagic ==
    /\ pc = "read"
    /\ cur_file' = StreamAdvance(cur_file, 12)
    /\ ani_data' = EmptyContext
    /\ IF check(StreamRead(cur_file, 12))
       THEN pc' = "chunks" /\ err' = err
       ELSE Abort("SyntaxError")
    /\ UNCHANGED <<skip_chunks, produced, cursor, out, list_data, delay_data, chunk, result>>

\* line 128: the loop asks read_chunks for the next triple
NextChunk ==
    /\ pc = "chunks"
    /\ LET r == next_chunk(cur_file, {})
       IN  /\ cur_file' = r.buffer
           /\ IF r.done
              THEN pc' = "assemble" /\ chunk' = chunk
              ELSE pc' = "dispatch" /\ chunk' = r.chunk
    /\ UNCHANGED <<skip_chunks, produced, cursor, out, list_data, delay_data, ani_data, result, err>>

\* lines 129-130 for a handler's outcome r
Handled(r) ==
    /\ ani_data' = r.out
    /\ IF r.err = "" THEN pc' = "chunks" /\ err' = err ELSE Abort(r.err)
    /\ UNCHANGED <<skip_chunks, produced, cursor, out, list_data, delay_data, cur_file, chunk, result>>

HeaderChunk ==
    /\ pc = "dispatch"
    /\ chunk.id = ANIH
    /\ Handled(_header_chunk(ani_data.header, chunk.data, ani_data))

ListChunk ==
    /\ pc = "dispatch"
    /\ chunk.id = LIST
    /\ Handled(_list_chunk(ani_data.header, chunk.data, ani_data))

SeqChunk ==
    /\ pc = "dispatch"
    /\ chunk.id = SEQ
    /\ Handled(_seq_chunk(ani_data.header, chunk.data, ani_data))

RateChunk ==
    /\ pc = "dispatch"
    /\ chunk.id = RATE
    /\ Handled(_rate_chunk(ani_data.header, chunk.data, ani_data))

\* a dispatch that rejects a tag outside CHUNKS
OtherChunk_strict ==
    /\ pc = "dispatch"
    /\ chunk.id \notin CHUNKS
    /\ Abort("SyntaxError")
    /\ UNCHANGED <<skip_chunks, produced, cursor, out, list_data, delay_data, cur_file, ani_data, chunk,
                   result>>

\* line 129: a tag outside CHUNKS is passed over
OtherChunk ==
    /\ pc = "dispatch"
    /\ chunk.id \notin CHUNKS
    /\ pc' = "chunks"
    /\ UNCHANGED <<skip_chunks, produced, cursor, out, list_data, delay_data, cur_file, ani_data, chunk,
                   result, err>>

\* the pairs zip(seq, rate) yields
zip_len(seq, rate) == Min(Len(seq), Len(rate))

\* lines 132-138 once both lists and the frame list are at hand
assemble(seq, rate, list) ==
    [i \in 1..zip_len(seq, rate) |-> <<list[seq[i] + 1], jiffies_to_ms(rate[i])>>]

Assemble ==
    /\ pc = "assemble"
    /\ IF ani_data.seq = <<>> \/ ani_data.rate = <<>>
       THEN Abort("KeyError") /\ result' = result
       ELSE LET seq == ani_data.seq[1]
                rate == ani_data.rate[1]
                n == zip_len(seq, rate)
            IN  IF n > 0 /\ ani_data.list = <<>>
                THEN Abort("KeyError") /\ result' = result
                ELSE IF \E i \in 1..n : seq[i] >= Len(ani_data.list[1])
                THEN Abort("IndexError") /\ result' = result
                ELSE /\ result' = <<assemble(seq, rate,
                                       IF n > 0 THEN ani_data.list[1] ELSE <<>>)>>
                     /\ pc' = "done"
                     /\ err' = err
    /\ UNCHANGED <<skip_chunks, produced, cursor, out, list_data, delay_data, cur_file, ani_data, chunk>>

\* lines 132-138 as a function of the decode context: the exception raised
\* ("" for none) and what read returns
assemble_outcome(data) ==
    IF data.seq = <<>> \/ data.rate = <<>>
    THEN [err |-> "KeyError", result |-> <<>>]
    ELSE LET seq == data.seq[1]
             rate == data.rate[1]
             n == zip_len(seq, rate)
         IN  IF n > 0 /\ data.list = <<>>
             THEN [err |-> "KeyError", result |-> <<>>]
             ELSE IF \E i \in 1..n : seq[i] >= Len(data.list[1])
             THEN [err |-> "IndexError", result |-> <<>>]
             ELSE [err |-> "",
                   result |-> <<assemble(seq, rate,
                                         IF n > 0 THEN data.list[1] ELSE <<>>)>>]

\* lines 128-130 over a sequence of triples: the handlers in stream order,
\* up to the first that raises
RECURSIVE read_loop(_, _)
read_loop(chunks, data) ==
    IF chunks = <<>> THEN Ok(data)
    ELSE LET c == Head(chunks)
             r == IF c.id \notin CHUNKS THEN Ok(data)
                  ELSE IF c.id = ANIH THEN _header_chunk(data.header, c.data, data)
                  ELSE IF c.id = LIST THEN _list_chunk(data.header, c.data, data)
                  ELSE IF c.id = RATE THEN _rate_chunk(data.header, c.data, data)
                  ELSE _seq_chunk(data.header, c.data, data)
         IN  IF r.err # "" THEN r ELSE read_loop(Tail(chunks), r.out)

\* lines 126-138: read of a container with a good prologue and these chunks
read_outcome(chunks) ==
    LET r == read_loop(chunks, EmptyContext)
    IN  IF r.err # "" THEN [err |-> r.err, result |-> <<>>]
        ELSE assemble_outcome(r.out)

\* ------------------------------------------------------------------ write
\* lines 146-149
WriteMagic ==
    /\ pc = "write"
    /\ out' = StreamWrite(StreamWrite(StreamWrite(out, RIFF_MAGIC), Zeros(4)), ACON_MAGIC)
    /\ pc' = "w_header"
    /\ UNCHANGED <<skip_chunks, produced, cursor, list_data, delay_data, cur_file, ani_data, chunk, result, err>>

\* lines 152-159
header_bytes(n) ==
    SetSlice(
        SetSlice(
            SetSlice(
                SetSlice(SetSlice(Zeros(36), 0, 4, to_bytes(36, 4)), 4, 8, to_bytes(n, 4)),
                8, 12, to_bytes(n, 4)),
            28, 32, to_bytes(10, 4)),
        32, 36, to_bytes(1, 4))

\* lines 151-165
WriteHeader ==
    /\ pc = "w_header"
    /\ out' = write_chunk(out, ANIH, header_bytes(Len(cursor)))
    /\ list_data' = FRAM
    /\ delay_data' = <<>>
    /\ pc' = "w_frames"
    /\ UNCHANGED <<skip_chunks, produced, cursor, cur_file, ani_data, chunk, result, err>>

\* lines 167-178: one iteration of the loop over the cursor
WriteFrame ==
    /\ pc = "w_frames"
    /\ (Len(delay_data) \div 4) < Len(cursor)
    /\ LET pair == cursor[(Len(delay_data) \div 4) + 1]
           cur_data == CurFormat_write(pair[1])
       IN  /\ list_data' = list_data \o ICON \o to_bytes(Len(cur_data), 4) \o cur_data
           /\ delay_data' = delay_data \o to_bytes(ms_to_jiffies(pair[2]), 4)
    /\ UNCHANGED <<skip_chunks, produced, pc, cursor, out, cur_file, ani_data, chunk, result, err>>

\* a write that emits the rate chunk before the LIST chunk
WriteLists_swapped ==
    /\ pc = "w_frames"
    /\ (Len(delay_data) \div 4) = Len(cursor)
    /\ out' = write_chunk(write_chunk(out, RATE, delay_data), LIST, list_data)
    /\ pc' = "w_patch"
    /\ UNCHANGED <<skip_chunks, produced, cursor, list_data, delay_data, cur_file,
                   ani_data, chunk, result, err>>

\* lines 181-182
WriteLists ==
    /\ pc = "w_frames"
    /\ (Len(delay_data) \div 4) = Len(cursor)
    /\ out' = write_chunk(write_chunk(out, LIST, list_data), RATE, delay_data)
    /\ pc' = "w_patch"
    /\ UNCHANGED <<skip_chunks, produced, cursor, list_data, delay_data, cur_file, ani_data, chunk, result, err>>

\* a length that forgets the eight bytes before the form marker
entire_file_len_all(o) == o.pos

\* line 185
entire_file_len(o) == o.pos - 8

\* lines 185-187
Backpatch ==
    /\ pc = "w_patch"
    /\ out' = StreamWrite(StreamSeek(out, 4), to_bytes(entire_file_len(out), 4))
    /\ pc' = "written"
    /\ UNCHANGED <<skip_chunks, produced, cursor, list_data, delay_data, cur_file, ani_data, chunk, result, err>>

\* read(write(seq)): the caller reads the written container from its start
ReadBack ==
    /\ pc = "written"
    /\ cur_file' = [data |-> out.data, pos |-> 0]
    /\ pc' = "read"
    /\ UNCHANGED <<skip_chunks, produced, cursor, out, list_data, delay_data, ani_data, chunk, result, err>>

Next ==
    \/ ReadMagic
    \/ NextChunk
    \/ HeaderChunk
    \/ ListChunk
    \/ SeqChunk
    \/ RateChunk
    \/ OtherChunk
    \/ Assemble
    \/ WriteMagic
    \/ WriteHeader
    \/ WriteFrame
    \/ WriteLists
    \/ Backpatch
    \/ ReadBack

Spec == Init /\ [][Next]_vars

\* ------------------------------------------- a direct call of read_chunks
\* the chunks of the streams handed to read_chunks
TokenChunks == {ChunkBytes(tag, data) : tag \in {JUNK, ICON}, data \in {<<>>, <<7>>}}

RECURSIVE Flatten(_)
Flatten(seqs) == IF seqs = <<>> THEN <<>> ELSE Head(seqs) \o Flatten(Tail(seqs))

\* streams of whole chunks
WholeStreams == {Flatten(cs) : cs \in UNION {[1..n -> TokenChunks] : n \in 0..MaxChunks}}

\* the same streams, and every stream cut short of one of them
TokenStreams == {Slice(d, 0, k) : d \in WholeStreams, k \in 0..(9 * MaxChunks)}

SkipSets == SUBSET {JUNK, ICON}

\* for ... in read_chunks(buffer, skip_chunks) on a stream at offset 0
InitChunks ==
    /\ pc = "tokens"
    /\ cursor = <<>>
    /\ cur_file \in {[data |-> d, pos |-> 0] : d \in TokenStreams}
    /\ skip_chunks \in SkipSets
    /\ produced = <<>>
    /\ Idle

\* lines 16-24: one pass through the while loop of read_chunks
ChunkIteration ==
    /\ pc = "tokens"
    /\ LET r == loop_iteration(cur_file, skip_chunks)
       IN  /\ cur_file' = r.buffer
           /\ pc' = IF r.kind = "return" THEN "exhausted" ELSE pc
           /\ IF r.kind = "yield"
              THEN chunk' = r.chunk /\ produced' = Append(produced, r.chunk)
              ELSE UNCHANGED <<chunk, produced>>
    /\ UNCHANGED <<cursor, out, list_data, delay_data, ani_data, result, err, skip_chunks>>

NextChunks == ChunkIteration

SpecChunks == InitChunks /\ [][NextChunks]_vars

\* the consumer keeps iterating and the interpreter keeps running the loop
FairChunks == SpecChunks /\ WF_vars(NextChunks)

\* ------------------------------------------------------------ the container
\* the top-level chunks of the container read is decoding
TopChunks == read_chunks([data |-> cur_file.data, pos |-> 12], {})

HasTag(tag) == \E i \in 1..Len(TopChunks) : TopChunks[i].id = tag

\* the payload of the last top-level chunk with this tag
LastData(tag) ==
    LET last == CHOOSE i \in 1..Len(TopChunks) :
                    /\ TopChunks[i].id = tag
                    /\ \A j \in (i + 1)..Len(TopChunks) : TopChunks[j].id # tag
    IN  TopChunks[last].data

\* the k-th little-endian u32 of a payload
Entry(data, k) == to_int(Slice(data, 4 * (k - 1), 4 * k))

\* a delay that survives the jiffy quantization
Survives(d) == PyRound(PyRound(d * 60, 1000) * 1000, 60) = d

\* no step leaves an aborted call
Aborted == pc = "failed" => UNCHANGED vars

\* ------------------------------------------------------------------ claims

\* C1: reading back what write wrote for a cursor of n >= 1 pairs returns n
\* pairs, the written frames in order, and the written delay wherever that
\* delay survives the jiffy quantization.
C1_RoundTrip ==
    (pc \in {"done", "failed"} /\ Len(cursor) >= 1) =>
        /\ pc = "done"
        /\ Len(result[1]) = Len(cursor)
        /\ \A i \in 1..Len(cursor) :
              /\ result[1][i][1] = cursor[i][1]
              /\ Survives(cursor[i][2]) => result[1][i][2] = cursor[i][2]

\* C2: every delay read returns is round(r * 1000 / 60) for the step's
\* effective rate r.
C2_DelayRounded ==
    pc = "done" =>
        \A i \in 1..Len(result[1]) :
            result[1][i][2] = PyRound(ani_data.rate[1][i] * 1000, 60)

\* C3: a 'seq ' or 'rate' chunk processed after the header aborts the read
\* unless its payload is exactly 4 * step_count bytes long.
C3_LengthChecked ==
    [][(/\ pc = "dispatch"
        /\ chunk.id \in {SEQ, RATE}
        /\ ani_data.header # <<>>
        /\ Len(chunk.data) # 4 * ani_data.header[1].num_steps)
       => (pc' = "failed" /\ err' = "SyntaxError" /\ result' = <<>>)]_vars

\* C4: with a header of frame_count >= 1 and a LIST chunk but no 'seq ' and no
\* 'rate' chunk, the result is assembled from the sequence
\* [i mod frame_count : i in 0..step_count-1] and step_count copies of
\* display_rate.
C4_DefaultTiming ==
    (/\ pc \in {"assemble", "done"}
     /\ HasTag(ANIH) /\ HasTag(LIST) /\ ~HasTag(SEQ) /\ ~HasTag(RATE)
     /\ ani_data.header # <<>>
     /\ ani_data.header[1].num_frames >= 1)
    => LET h == ani_data.header[1]
       IN  /\ ani_data.seq = <<[i \in 1..h.num_steps |-> (i - 1) % h.num_frames]>>
           /\ ani_data.rate = <<[i \in 1..h.num_steps |-> h.display_rate]>>

\* num_steps = 5, num_frames = 2 decoded without 'seq ' and 'rate' chunks
C4_Witness ==
    /\ pc = "done"
    /\ ~HasTag(SEQ) /\ ~HasTag(RATE)
    /\ ani_data.header[1].num_steps = 5
    /\ ani_data.header[1].num_frames = 2
    /\ ani_data.seq = <<(<<0, 1, 0, 1, 0>>)>>
    /\ ani_data.rate = <<(<<6, 6, 6, 6, 6>>)>>
    /\ Len(result[1]) = 5

\* C5: when the last 'seq ' chunk (the last 'rate' chunk) of a decoded
\* container has exactly step_count entries, the i-th pair of the result is
\* the frame at the FrameList index that chunk gives for i (the delay derived
\* from the rate that chunk gives for i), for every step i.
C5_ExplicitOverride ==
    pc = "done" =>
        LET n == ani_data.header[1].num_steps
        IN  /\ (HasTag(SEQ) /\ Len(LastData(SEQ)) = 4 * n) =>
                  /\ Len(result[1]) = n
                  /\ \A i \in 1..n :
                        result[1][i][1] = ani_data.list[1][Entry(LastData(SEQ), i) + 1]
            /\ (HasTag(RATE) /\ Len(LastData(RATE)) = 4 * n) =>
                  /\ Len(result[1]) >= n
                  /\ \A i \in 1..n :
                        result[1][i][2] = jiffies_to_ms(Entry(LastData(RATE), i))

\* a result whose frames follow an explicit sequence, not the default one
C5_Witness ==
    /\ pc = "done"
    /\ HasTag(SEQ)
    /\ Len(LastData(SEQ)) = 4 * ani_data.header[1].num_steps
    /\ ani_data.header[1].num_steps >= 2
    /\ ani_data.seq[1] # default_seq(ani_data.header[1])
    /\ result[1][1][1] = ani_data.list[1][2]

\* C6: an 'anih' chunk processed when a header is already set aborts the
\* read; header, sequence and rates stay as the first header set them, and no
\* result is returned.
C6_DuplicateHeader ==
    [][/\ (pc = "dispatch" /\ chunk.id = ANIH /\ ani_data.header # <<>>)
          => (/\ pc' = "failed"
              /\ err' = "SyntaxError"
              /\ ani_data' = ani_data
              /\ result' = <<>>)
       /\ Aborted]_vars

\* the read aborted at a second header
C6_Witness ==
    /\ pc = "failed"
    /\ err = "SyntaxError"
    /\ chunk.id = ANIH
    /\ ani_data.header # <<>>
    /\ ani_data.seq = <<default_seq(ani_data.header[1])>>
    /\ result = <<>>

\* C7: a 'LIST', 'seq ' or 'rate' chunk reached while no header is set
\* aborts the read at that chunk: nothing more is read from the stream and no
\* result is returned.
C7_BeforeHeader ==
    [][/\ (pc = "dispatch" /\ chunk.id \in {LIST, SEQ, RATE} /\ ani_data.header = <<>>)
          => (/\ pc' = "failed"
              /\ err' = "SyntaxError"
              /\ cur_file' = cur_file
              /\ ani_data' = EmptyContext
              /\ result' = <<>>)
       /\ Aborted]_vars

\* the read aborted at a header-dependent chunk, with chunks still unread
C7_Witness ==
    /\ pc = "failed"
    /\ chunk.id \in {LIST, SEQ, RATE}
    /\ ani_data.header = <<>>
    /\ cur_file.pos < Len(cur_file.data)
    /\ result = <<>>

\* C8: a 'LIST' chunk processed after the header whose payload does not
\* start with 'fram' (a payload shorter than 4 bytes included) aborts the
\* read and leaves the context's FrameList as it was.
C8_ListMarker ==
    [][(/\ pc = "dispatch"
        /\ chunk.id = LIST
        /\ ani_data.header # <<>>
        /\ Slice(chunk.data, 0, 4) # FRAM)
       => (/\ pc' = "failed"
           /\ err' = "SyntaxError"
           /\ ani_data'.list = ani_data.list
           /\ result' = <<>>)]_vars

\* the read aborted at a LIST chunk of fewer than 4 bytes
C8_Witness ==
    /\ pc = "failed"
    /\ chunk.id = LIST
    /\ ani_data.header # <<>>
    /\ Len(chunk.data) < 4
    /\ ani_data.list = <<>>

\* C9: when write has completed, bytes 0-3 of the output are 'RIFF', bytes
\* 8-11 are 'ACON' and the little-endian u32 at offset 4 is the length of the
\* output minus 8, for every cursor length, 0 included.
C9_Backpatch ==
    pc = "written" =>
        /\ Slice(out.data, 0, 4) = RIFF_MAGIC
        /\ Slice(out.data, 8, 12) = ACON_MAGIC
        /\ to_int(Slice(out.data, 4, 8)) = Len(out.data) - 8

\* write completed for the empty cursor: 76 bytes, length field 68
C9_Witness ==
    /\ pc = "written"
    /\ Len(cursor) = 0
    /\ Len(out.data) = 76
    /\ to_int(Slice(out.data, 4, 8)) = 68

\* C10: when write returns, the position of the output stream is its end.
C10_PositionAtEnd ==
    pc = "written" => out.pos = Len(out.data)

\* C11: check(b) is true exactly when b has bytes 0-3 'RIFF' and bytes 8-11
\* 'ACON' (so it is false for fewer than 12 bytes); read goes on to the
\* chunks when check of the first 12 bytes is true and otherwise aborts with
\* a format-mismatch error before any chunk is tokenized.
C11_MagicCheck ==
    [][pc = "read" =>
        LET b == StreamRead(cur_file, 12)
            ok == /\ Len(b) >= 12
                  /\ \A i \in 1..4 : b[i] = RIFF_MAGIC[i] /\ b[8 + i] = ACON_MAGIC[i]
        IN  /\ check(b) = ok
            /\ ok => (pc' = "chunks" /\ err' = "")
            /\ ~ok => (/\ pc' = "failed"
                       /\ err' = "SyntaxError"
                       /\ chunk' = NoChunk
                       /\ cur_file'.pos <= 12
                       /\ result' = <<>>)]_vars

\* read aborted on a file with the RIFF marker and a wrong form marker
C11_Witness ==
    /\ pc = "failed"
    /\ err = "SyntaxError"
    /\ Len(cur_file.data) >= 12
    /\ Slice(cur_file.data, 0, 4) = RIFF_MAGIC
    /\ Slice(cur_file.data, 8, 12) # ACON_MAGIC
    /\ cur_file.pos = 12
    /\ chunk = NoChunk

\* the four tags read interprets
KnownTags == {ANIH, LIST, SEQ, RATE}

\* a sequence of triples without those of an unknown tag
RECURSIVE KnownOnly(_)
KnownOnly(chunks) ==
    IF chunks = <<>> THEN <<>>
    ELSE (IF Head(chunks).id \in KnownTags THEN <<Head(chunks)>> ELSE <<>>)
         \o KnownOnly(Tail(chunks))

\* a read that got past the prologue has ended
ReadEnded ==
    /\ pc \in {"done", "failed"}
    /\ check(Slice(cur_file.data, 0, 12))

\* C12: a top-level chunk whose tag is none of 'anih', 'LIST', 'seq ', 'rate'
\* is passed over with the decode context unchanged and no error, and read
\* ends as it does on the container with every such chunk removed: the same
\* result or the same failure.
C12_UnknownIgnored ==
    /\ [](ReadEnded =>
            [err |-> err, result |-> result] = read_outcome(KnownOnly(TopChunks)))
    /\ [][(pc = "dispatch" /\ chunk.id \notin KnownTags)
          => (/\ pc' = "chunks"
              /\ ani_data' = ani_data
              /\ result' = result
              /\ err' = err)]_vars

\* a result returned for a container that holds an unknown chunk
C12_Witness ==
    /\ pc = "done"
    /\ HasTag(JUNK)
    /\ Len(KnownOnly(TopChunks)) < Len(TopChunks)
    /\ Len(result[1]) >= 1

\* C13: once the header is processed, and after every later handler that
\* completes without error, StepSequence and StepRates each have exactly
\* step_count entries, so a result read returns has exactly step_count pairs.
C13_StepCountEntries ==
    (pc \in {"chunks", "dispatch", "assemble", "done"} /\ ani_data.header # <<>>) =>
        LET n == ani_data.header[1].num_steps
        IN  /\ Len(ani_data.seq[1]) = n
            /\ Len(ani_data.rate[1]) = n
            /\ pc = "done" => Len(result[1]) = n

\* ---------------------------------------------- claims about read_chunks
\* the stream handed to read_chunks, at its start
WholeInput == [data |-> cur_file.data, pos |-> 0]

RECURSIVE StreamLength(_)
StreamLength(chunks) ==
    IF chunks = <<>> THEN 0 ELSE 8 + Head(chunks).size + StreamLength(Tail(chunks))

\* the stream is a sequence of whole chunks: 4-byte tag, 4-byte length, payload
WellFormed ==
    LET chunks == read_chunks(WholeInput, {})
    IN  /\ \A i \in 1..Len(chunks) :
              Len(chunks[i].id) = 4 /\ Len(chunks[i].data) = chunks[i].size
        /\ StreamLength(chunks) = Len(cur_file.data)

RECURSIVE Unskipped(_, _)
Unskipped(chunks, skip) ==
    IF chunks = <<>> THEN <<>>
    ELSE (IF Head(chunks).id \in skip THEN <<>> ELSE <<Head(chunks)>>)
         \o Unskipped(Tail(chunks), skip)

\* C14: over a well-formed stream read_chunks consumes the whole stream and
\* produces exactly the triples of the chunks whose tag is not in the skip
\* set, in stream order and unchanged.
C14_SkipWhole ==
    (pc = "exhausted" /\ WellFormed) =>
        /\ produced = Unskipped(read_chunks(WholeInput, {}), skip_chunks)
        /\ cur_file.pos = Len(cur_file.data)

\* C15: every triple read_chunks produces has a 4-byte tag and a payload of
\* exactly 'length' bytes (a stream that ends inside a tag, a length field or
\* a payload produces no triple for the cut chunk).
C15_WholeTriples ==
    pc \in {"tokens", "exhausted"} =>
        \A i \in 1..Len(produced) :
            /\ Len(produced[i].id) = 4
            /\ Len(produced[i].data) = produced[i].size

\* C19: every pass through the loop of read_chunks consumes at least one byte
\* of the stream or ends the iteration, it never produces more triples than
\* the stream has bytes, and the iteration ends.
C19_Terminates ==
    /\ [][pc = "tokens" => (cur_file'.pos > cur_file.pos \/ pc' = "exhausted")]_vars
    /\ [](Len(produced) <= Len(cur_file.data))
    /\ <>(pc = "exhausted")

\* the iteration over a cut stream ended, with a non-empty skip set used
C19_Witness ==
    /\ pc = "exhausted"
    /\ skip_chunks # {}
    /\ ~WellFormed
    /\ Len(produced) >= 2
    /\ Len(produced) < Len(read_chunks(WholeInput, {}))
    /\ cur_file.pos = Len(cur_file.data)

\* ------------------------------------------------------ claims, continued
\* the top-level chunks of what write has written
OutChunks == read_chunks([data |-> out.data, pos |-> 12], {})

\* the sub-chunks of a LIST payload
SubChunks(data) == read_chunks([data |-> Slice(data, 4, Len(data)), pos |-> 0], {})

\* C16: after the 12-byte prologue write emits exactly the chunks 'anih',
\* 'LIST', 'rate' in this order (no 'seq '); the 'anih' payload has 36 bytes:
\* self-length 36, frame_count = step_count = n, display_rate 10, flags 1; the
\* 'LIST' payload is 'fram' and then one 'icon' sub-chunk per input frame, in
\* input order; the 'rate' payload is n u32, the i-th round(delay_i * 60 / 1000)
\* (Python's round).
C16_WrittenLayout ==
    pc = "written" =>
        LET n == Len(cursor)
            c == OutChunks
        IN  /\ Len(c) = 3
            /\ <<c[1].id, c[2].id, c[3].id>> = <<ANIH, LIST, RATE>>
            /\ \A k \in 1..3 : Len(c[k].data) = c[k].size
            /\ 12 + StreamLength(c) = Len(out.data)
            /\ c[1].size = 36
            /\ Entry(c[1].data, 1) = 36
            /\ Entry(c[1].data, 2) = n
            /\ Entry(c[1].data, 3) = n
            /\ Entry(c[1].data, 8) = 10
            /\ Entry(c[1].data, 9) = 1
            /\ Slice(c[2].data, 0, 4) = FRAM
            /\ LET sub == SubChunks(c[2].data)
               IN  /\ Len(sub) = n
                   /\ 4 + StreamLength(sub) = c[2].size
                   /\ \A i \in 1..n :
                         /\ sub[i].id = ICON
                         /\ sub[i].data = CurFormat_write(cursor[i][1])
                         /\ Len(sub[i].data) = sub[i].size
            /\ c[3].size = 4 * n
            /\ \A i \in 1..n : Entry(c[3].data, i) = PyRound(cursor[i][2] * 60, 1000)

\* a written container of two different frames, with delays 75 ms (4.5
\* jiffies, stored as 4) and 17 ms (stored as 1)
C16_Witness ==
    /\ pc = "written"
    /\ Len(cursor) = 2
    /\ cursor[1][1] # cursor[2][1]
    /\ cursor[1][2] = 75
    /\ cursor[2][2] = 17
    /\ OutChunks[3].data = <<4, 0, 0, 0, 1, 0, 0, 0>>

\* C17: once a LIST chunk has been processed without error the FrameList has
\* exactly frame_count entries, one per 'icon' sub-chunk, so every index of
\* the default StepSequence resolves to a frame.
C17_FrameListLength ==
    (pc \in {"chunks", "assemble", "done"} /\ ani_data.list # <<>>) =>
        LET h == ani_data.header[1]
            frames == ani_data.list[1]
        IN  /\ Len(frames) = h.num_frames
            /\ \A i \in 1..h.num_steps : default_seq(h)[i] < Len(frames)

\* the container's first interpreted chunk is its only 'anih' chunk
SingleHeaderFirst ==
    /\ HasTag(ANIH)
    /\ Len(KnownOnly(TopChunks)) >= 1
    /\ KnownOnly(TopChunks)[1].id = ANIH
    /\ \A i, j \in 1..Len(TopChunks) :
          (TopChunks[i].id = ANIH /\ TopChunks[j].id = ANIH) => i = j

HeaderIndex == CHOOSE i \in 1..Len(TopChunks) : TopChunks[i].id = ANIH

\* the chunks after the header
AfterHeader == SubSeq(TopChunks, HeaderIndex + 1, Len(TopChunks))

\* the rearrangements g (old place -> new place) of n chunks that keep the
\* chunks of one tag in their order
OrderKeeping(chunks) ==
    LET n == Len(chunks)
    IN  {g \in [1..n -> 1..n] :
            /\ \A i, j \in 1..n : g[i] = g[j] => i = j
            /\ \A i, j \in 1..n : (i < j /\ chunks[i].id = chunks[j].id) => g[i] < g[j]}

Rearranged(chunks, g) ==
    [k \in 1..Len(chunks) |-> chunks[CHOOSE i \in 1..Len(chunks) : g[i] = k]]

\* the same result, or a failure in both cases
SameOutcome(a, b) ==
    \/ a.err # "" /\ b.err # ""
    \/ a.err = "" /\ b.err = "" /\ a.result = b.result

\* header, then the last LIST, the last 'seq ' and the last 'rate' chunk
LastOnly ==
    <<TopChunks[HeaderIndex]>>
    \o (IF HasTag(LIST) THEN <<[id |-> LIST, size |-> Len(LastData(LIST)),
                               data |-> LastData(LIST)]>> ELSE <<>>)
    \o (IF HasTag(SEQ) THEN <<[id |-> SEQ, size |-> Len(LastData(SEQ)),
                              data |-> LastData(SEQ)]>> ELSE <<>>)
    \o (IF HasTag(RATE) THEN <<[id |-> RATE, size |-> Len(LastData(RATE)),
                               data |-> LastData(RATE)]>> ELSE <<>>)

\* C18 as claimed: with a single header first, how read ends (its result, or
\* a failure) depends only on the header and the last LIST, the last 'seq '
\* and the last 'rate' chunk after it.
C18_DependsOnLast ==
    (ReadEnded /\ SingleHeaderFirst) =>
        SameOutcome([err |-> err, result |-> result], read_outcome(LastOnly))

\* C18 as amended: with a single header first, (a) every rearrangement of the
\* chunks after the header that keeps the chunks of one tag in order ends
\* the same way, with the same result or with a failure in both cases, and
\* (b) a result read returns is assembled from the header, the last LIST, the
\* last 'seq ' and the last 'rate' chunk alone: a later chunk of a tag
\* replaces an earlier one and the defaults.
C18_LastChunkWins ==
    (ReadEnded /\ SingleHeaderFirst) =>
        /\ \A g \in OrderKeeping(AfterHeader) :
              SameOutcome([err |-> err, result |-> result],
                          read_outcome(SubSeq(TopChunks, 1, HeaderIndex)
                                       \o Rearranged(AfterHeader, g)))
        /\ pc = "done" =>
              LET h == ani_data.header[1]
                  seq == IF HasTag(SEQ) THEN int_list(LastData(SEQ))
                         ELSE [i \in 1..h.num_steps |-> (i - 1) % h.num_frames]
                  rate == IF HasTag(RATE) THEN int_list(LastData(RATE))
                          ELSE [i \in 1..h.num_steps |-> h.display_rate]
                  n == Min(Len(seq), Len(rate))
              IN  /\ Len(result[1]) = n
                  /\ \A i \in 1..n :
                        result[1][i] =
                            <<icon_frames(SubChunks(LastData(LIST)), h.is_in_ico)[seq[i] + 1],
                              jiffies_to_ms(rate[i])>>

\* a result for a container with two accepted 'rate' chunks of different
\* payloads after the header: the delays are those of the second
C18_Witness ==
    /\ pc = "done"
    /\ SingleHeaderFirst
    /\ \E i, j \in 1..Len(TopChunks) :
          /\ i < j
          /\ TopChunks[i].id = RATE /\ TopChunks[j].id = RATE
          /\ TopChunks[i].data # TopChunks[j].data
    /\ Len(result[1]) >= 2
    /\ result[1][1][2] = jiffies_to_ms(Entry(LastData(RATE), 1))
    /\ Cardinality(OrderKeeping(AfterHeader)) >= 3
====
